---- MODULE Spec2Model ----
(***************************************************************************)
(* Model of the package registry and version-lifecycle engine of           *)
(* nathfavour/updater (src/src/package.rs).                                *)
(*                                                                         *)
(* Every invocation of the tool is a process that loads the whole          *)
(* registry document, runs the body of one operation on its in-memory      *)
(* copy (calling the installer capability and the filesystem), and, unless *)
(* it returned early, writes the whole document back.                      *)
(***************************************************************************)
EXTENDS Integers, FiniteSets, Sequences, TLC

\* ------------------------------------------------------------------------
\* Bounds of the model
\* ------------------------------------------------------------------------

\* Number of invocations of the tool in one behaviour.
MaxOps == 4

\* Number of install calls in one behaviour (each may read the clock).
MaxInstalls == 3

\* Number of steps in one behaviour at which the installer, the host or the
\* filesystem fails.
MaxFaults == 1

\* ------------------------------------------------------------------------
\* Value universes
\* ------------------------------------------------------------------------

\* Option::None of the Rust code.
None == "None"

\* Package names given on the command line.
Names == {"foo", "bar"}

\* Version labels given on the command line.
Versions == {"1.0", "2.0", "latest"}

\* Names of the installer capabilities a host may offer.
PackageManagers == {"apt"}

\* The invocations of the tool: processes.
Procs == {"p1", "p2"}

\* The process of the invocations that run one after the other.
FirstProc == "p1"

\* The empty HashMap.
EmptyMap == [k \in {} |-> None]

\* HashMap::insert / HashMap::remove on a map modelled as a function.
MapInsert(m, k, v) == [x \in (DOMAIN m) \cup {k} |-> IF x = k THEN v ELSE m[x]]

MapRemove(m, k) == [x \in (DOMAIN m) \ {k} |-> m[x]]

\* ------------------------------------------------------------------------
\* State
\* ------------------------------------------------------------------------

VARIABLES
    db,         \* the persisted registry document: package name -> Package
    corrupt,    \* TRUE when the persisted document cannot be parsed
    disk,       \* the install directories that exist on disk
    clock,      \* the local time, read by chrono::Local::now()
    nops,       \* invocations started so far
    ninstalls,  \* install calls started so far
    faults,     \* failures so far of the installer, the host or the filesystem
    pc,         \* per process: "idle", "body", "save" or "returned"
    op,         \* per process: the call it runs
    packages,   \* per process: the local `packages` of the call
    pre,        \* per process: the document, the disk and the failures so far
                \* when it loaded
    result,     \* per process: "none", "Ok" or the error the call returned
    out,        \* per process: the lines the call has printed
    calls       \* per process: the calls it made to the installer capability

vars == <<db, corrupt, disk, clock, nops, ninstalls, faults,
          pc, op, packages, pre, result, out, calls>>

\* ------------------------------------------------------------------------
\* Data model
\* ------------------------------------------------------------------------

\* struct PackageVersion.
PackageVersion(install_path, install_date, bin_paths, package_manager) ==
    [install_path |-> install_path, install_date |-> install_date,
     bin_paths |-> bin_paths, package_manager |-> package_manager]

\* The Package that install creates when the name is not in the registry.
NewPackage(name, user) ==
    [name |-> name, versions |-> EmptyMap, active_version |-> None,
     system |-> ~user]

\* The orders in which iterating a HashMap may yield its keys: the std
\* HashMap hashes with RandomState, seeded afresh in every process, so any
\* order of the keys is possible.
HashMapIter(m) ==
    {s \in [1..Cardinality(DOMAIN m) -> DOMAIN m] :
        \A i, j \in DOMAIN s : s[i] = s[j] => i = j}

\* The calls of the command line, as one record shape.
Call(kind, name, version, user) ==
    [kind |-> kind, name |-> name, version |-> version, user |-> user]

\* The calls of the model: every version of foo system-wide, one version of
\* foo in both scopes, one version of bar; remove, update and switch of every
\* name and version.
Calls ==
    {Call("install", "foo", v, FALSE) : v \in Versions \cup {None}}
    \cup {Call("install", "foo", "1.0", TRUE), Call("install", "bar", "1.0", FALSE)}
    \cup {Call("remove", n, v, FALSE) : n \in Names, v \in Versions \cup {None}}
    \cup {Call("update", n, None, FALSE) : n \in Names \cup {None}}
    \cup {Call("switch", n, v, FALSE) : n \in Names, v \in Versions}

NoCall == Call("none", None, None, FALSE)

\* The list calls of the command line: both filters, set or not.
ListCalls ==
    {[kind |-> "list", system_only |-> s, user_only |-> u] : s, u \in BOOLEAN}

\* A printed line.
Line(what, arg) == <<what, arg>>

\* A call to the installer capability and whether it succeeded.
Used(method, arg, ok) == <<method, arg, ok>>

\* What the body of a call leaves: ret is "save" (go on to save_packages),
\* "Ok" (return Ok(())) or the error returned.
Outcome(ret, pkgs, dsk, ticks, lines, used) ==
    [ret |-> ret, packages |-> pkgs, disk |-> dsk, ticks |-> ticks,
     out |-> lines, calls |-> used]

\* ------------------------------------------------------------------------
\* Registry store
\* ------------------------------------------------------------------------

\* A load that takes a document it cannot parse for no document at all.
LoadPackagesLenient(document, unparsable) ==
    [ok |-> TRUE, packages |-> IF unparsable THEN EmptyMap ELSE document]

\* load_packages: the parsed document, or an error when it cannot be parsed.
\* A document that does not exist is the empty db.
LoadPackages(document, unparsable) ==
    IF unparsable THEN [ok |-> FALSE, packages |-> EmptyMap]
    ELSE [ok |-> TRUE, packages |-> document]

\* What fs::write may do: replace the whole document, fail before touching
\* it, or fail after truncating it ("torn") and leave an unparsable document.
SaveWrites == {"ok", "fail", "torn"}

\* A save that merges: the packages of the document that the saved map does
\* not hold are kept.
SavePackagesMerging(document, unparsable, pkgs, w) ==
    [ok |-> w = "ok",
     document |-> IF w = "ok"
                  THEN [n \in (DOMAIN document) \cup (DOMAIN pkgs) |->
                            IF n \in DOMAIN pkgs THEN pkgs[n] ELSE document[n]]
                  ELSE document,
     unparsable |-> IF w = "ok" THEN FALSE ELSE IF w = "torn" THEN TRUE ELSE unparsable]

\* A save that writes the saved packages but keeps, for a package the
\* document holds, the active_version of the document.
SavePackagesKeepingActive(document, unparsable, pkgs, w) ==
    [ok |-> w = "ok",
     document |-> IF w = "ok"
                  THEN [n \in DOMAIN pkgs |->
                            IF n \in DOMAIN document
                            THEN [pkgs[n] EXCEPT
                                    !.active_version = document[n].active_version]
                            ELSE pkgs[n]]
                  ELSE document,
     unparsable |-> IF w = "ok" THEN FALSE ELSE IF w = "torn" THEN TRUE ELSE unparsable]

\* save_packages: the document after fs::write of the serialized map.
SavePackages(document, unparsable, pkgs, w) ==
    [ok |-> w = "ok",
     document |-> IF w = "ok" THEN pkgs ELSE document,
     unparsable |-> IF w = "ok" THEN FALSE ELSE IF w = "torn" THEN TRUE ELSE unparsable]

\* ------------------------------------------------------------------------
\* Installer capability (crate::system, not part of the sources at hand)
\* ------------------------------------------------------------------------

\* system::detect_package_manager(): a capability of the host, or an error.
DetectPackageManager == PackageManagers \cup {None}

\* PackageManager::install: the executable paths, or an error.
InstallerInstall(install_dir) ==
    {[ok |-> FALSE, bin_paths |-> << >>], [ok |-> TRUE, bin_paths |-> <<install_dir>>]}

\* ------------------------------------------------------------------------
\* install
\* ------------------------------------------------------------------------

\* A version label taken as given, with no default.
VersionToInstallVerbatim(version) == version

\* version.unwrap_or_else(|| "latest").
VersionToInstall(version) == IF version = None THEN "latest" ELSE version

InstallDir(name, version_to_install, user) ==
    <<IF user THEN "home" ELSE "opt", name, version_to_install>>

\* An install that makes every installed version the active one.
InstallRegisterAlwaysActive(pkgs, name, version_to_install, user, pm, now, bin_paths) ==
    LET package == IF name \in DOMAIN pkgs THEN pkgs[name] ELSE NewPackage(name, user)
        package_version ==
            PackageVersion(InstallDir(name, version_to_install, user), now, bin_paths, pm)
        versions == MapInsert(package.versions, version_to_install, package_version)
    IN  MapInsert(pkgs, name,
                  [package EXCEPT !.versions = versions,
                                  !.active_version = version_to_install])

\* An install that sets the scope of the package from its own user flag.
InstallRegisterRescopes(pkgs, name, version_to_install, user, pm, now, bin_paths) ==
    LET package == IF name \in DOMAIN pkgs
                   THEN [pkgs[name] EXCEPT !.system = ~user]
                   ELSE NewPackage(name, user)
        package_version ==
            PackageVersion(InstallDir(name, version_to_install, user), now, bin_paths, pm)
        versions == MapInsert(package.versions, version_to_install, package_version)
        active == IF package.active_version = None
                  THEN version_to_install ELSE package.active_version
    IN  MapInsert(pkgs, name,
                  [package EXCEPT !.versions = versions, !.active_version = active])

\* An install that stamps every version of the package with the current time.
InstallRegisterRestampsAll(pkgs, name, version_to_install, user, pm, now, bin_paths) ==
    LET package == IF name \in DOMAIN pkgs THEN pkgs[name] ELSE NewPackage(name, user)
        package_version ==
            PackageVersion(InstallDir(name, version_to_install, user), now, bin_paths, pm)
        versions == MapInsert(package.versions, version_to_install, package_version)
        active == IF package.active_version = None
                  THEN version_to_install ELSE package.active_version
    IN  MapInsert(pkgs, name,
                  [package EXCEPT
                     !.versions = [v \in DOMAIN versions |->
                                      [versions[v] EXCEPT !.install_date = now]],
                     !.active_version = active])

\* The update of the package database of a successful install.
InstallRegister(pkgs, name, version_to_install, user, pm, now, bin_paths) ==
    LET package == IF name \in DOMAIN pkgs THEN pkgs[name] ELSE NewPackage(name, user)
        package_version ==
            PackageVersion(InstallDir(name, version_to_install, user), now, bin_paths, pm)
        versions == MapInsert(package.versions, version_to_install, package_version)
        active == IF package.active_version = None
                  THEN version_to_install ELSE package.active_version
    IN  MapInsert(pkgs, name,
                  [package EXCEPT !.versions = versions, !.active_version = active])

\* An install that drops the error of the installer and records the version.
InstallOutcomeRecordsFailure(pkgs, call, dsk, pm, mkdir_ok, ins, now) ==
    LET version_to_install == VersionToInstall(call.version)
        install_dir == InstallDir(call.name, version_to_install, call.user)
        detected == {Used("detect", pm, pm # None)}
        using == {Line("Using package manager", pm)}
    IN  IF pm = None
        THEN Outcome("NoInstallerAvailable", pkgs, dsk, 0, {}, detected)
        ELSE IF ~mkdir_ok
        THEN Outcome("IoError", pkgs, dsk, 0, using, detected)
        ELSE Outcome("save",
                     InstallRegister(pkgs, call.name, version_to_install,
                                     call.user, pm, now, ins.bin_paths),
                     dsk \cup {install_dir}, 1, using,
                     detected \cup {Used("install", call.name, ins.ok)})

\* The body of install between the load and the save: pm is the detected
\* capability (None: detection failed), mkdir_ok whether create_dir_all
\* succeeded, ins the result of the installer.
InstallOutcome(pkgs, call, dsk, pm, mkdir_ok, ins, now) ==
    LET version_to_install == VersionToInstall(call.version)
        install_dir == InstallDir(call.name, version_to_install, call.user)
        detected == {Used("detect", pm, pm # None)}
        using == {Line("Using package manager", pm)}
    IN  IF pm = None
        THEN Outcome("NoInstallerAvailable", pkgs, dsk, 0, {}, detected)
        ELSE IF ~mkdir_ok
        THEN Outcome("IoError", pkgs, dsk, 0, using, detected)
        ELSE IF ~ins.ok
        THEN Outcome("InstallerError", pkgs, dsk \cup {install_dir}, 0, using,
                     detected \cup {Used("install", call.name, FALSE)})
        ELSE Outcome("save",
                     InstallRegister(pkgs, call.name, version_to_install,
                                     call.user, pm, now, ins.bin_paths),
                     dsk \cup {install_dir}, 1, using,
                     detected \cup {Used("install", call.name, TRUE)})

\* ------------------------------------------------------------------------
\* remove
\* ------------------------------------------------------------------------

\* The install directories recorded for a package.
InstallPaths(package) ==
    {package.versions[v].install_path : v \in DOMAIN package.versions}

\* A removal that clears active_version and promotes no other version.
RemoveVersionNoPromotion(pkgs, name, ver, order) ==
    LET package == pkgs[name]
        versions == MapRemove(package.versions, ver)
        active == IF package.active_version = ver THEN None ELSE package.active_version
    IN  [pkgs EXCEPT ![name] = [package EXCEPT !.versions = versions,
                                               !.active_version = active]]

\* A removal that forgets to reset active_version.
RemoveVersionKeepsActive(pkgs, name, ver, order) ==
    [pkgs EXCEPT ![name].versions = MapRemove(pkgs[name].versions, ver)]

\* The in-memory part of removing one version: the entry is taken out of
\* versions and, when it was the active one, active_version becomes the first
\* key that iterating the remaining versions yields (order), or None.
RemoveVersion(pkgs, name, ver, order) ==
    LET package == pkgs[name]
        versions == MapRemove(package.versions, ver)
        active == IF package.active_version = ver
                  THEN (IF order = << >> THEN None ELSE Head(order))
                  ELSE package.active_version
    IN  [pkgs EXCEPT ![name] = [package EXCEPT !.versions = versions,
                                               !.active_version = active]]

\* The lines remove prints for a removed version.
RemoveVersionLines(package, ver, order) ==
    {Line("Removed version", ver)}
    \cup (IF package.active_version = ver /\ order # << >>
          THEN {Line("Set", Head(order))} ELSE {})

\* A loop that calls fs::remove_dir_all on every recorded directory, missing
\* or not: the deletion of a missing directory fails.
RECURSIVE RemoveAllTreesUnguarded(_, _, _, _)
RemoveAllTreesUnguarded(package, order, dsk, fails) ==
    IF order = << >> THEN [ok |-> TRUE, disk |-> dsk]
    ELSE LET path == package.versions[Head(order)].install_path
         IN  IF path \notin dsk \/ path \in fails
             THEN [ok |-> FALSE, disk |-> dsk]
             ELSE RemoveAllTreesUnguarded(package, Tail(order), dsk \ {path}, fails)

\* The loop of remove without a version: the trees are deleted in iteration
\* order, a missing directory is skipped, and the first deletion that fails
\* ends the call.  fails holds the directories whose deletion fails.
RECURSIVE RemoveAllTrees(_, _, _, _)
RemoveAllTrees(package, order, dsk, fails) ==
    IF order = << >> THEN [ok |-> TRUE, disk |-> dsk]
    ELSE LET path == package.versions[Head(order)].install_path
         IN  IF path \notin dsk
             THEN RemoveAllTrees(package, Tail(order), dsk, fails)
             ELSE IF path \in fails
             THEN [ok |-> FALSE, disk |-> dsk]
             ELSE RemoveAllTrees(package, Tail(order), dsk \ {path}, fails)

\* The iteration orders the body of remove may meet: of the versions that
\* remain (with a version) or of all the versions (without).
RemoveOrders(pkgs, call) ==
    IF call.name \notin DOMAIN pkgs THEN {<< >>}
    ELSE IF call.version # None
    THEN HashMapIter(MapRemove(pkgs[call.name].versions, call.version))
    ELSE HashMapIter(pkgs[call.name].versions)

\* The body of remove between the load and the save.  fs::remove_dir_all
\* fails on the directories in fails and on a directory that does not exist.
RemoveOutcome(pkgs, call, dsk, fails, order) ==
    IF call.name \notin DOMAIN pkgs
    THEN Outcome("Ok", pkgs, dsk, 0, {Line("Package not found", call.name)}, {})
    ELSE LET package == pkgs[call.name] IN
         IF call.version # None
         THEN IF call.version \in DOMAIN package.versions
              THEN LET path == package.versions[call.version].install_path IN
                   IF path \in dsk /\ path \notin fails
                   THEN Outcome("save",
                                RemoveVersion(pkgs, call.name, call.version, order),
                                dsk \ {path}, 0,
                                RemoveVersionLines(package, call.version, order), {})
                   ELSE Outcome("IoError",
                                [pkgs EXCEPT ![call.name].versions =
                                    MapRemove(package.versions, call.version)],
                                dsk, 0, {}, {})
              ELSE Outcome("Ok", pkgs, dsk, 0,
                           {Line("Version not found", call.version)}, {})
         ELSE LET trees == RemoveAllTrees(package, order, dsk, fails) IN
              IF trees.ok
              THEN Outcome("save", MapRemove(pkgs, call.name), trees.disk, 0,
                           {Line("Removed package", call.name)}, {})
              ELSE Outcome("IoError", pkgs, trees.disk, 0, {}, {})

\* ------------------------------------------------------------------------
\* update
\* ------------------------------------------------------------------------

\* The package has an active version whose entry records an installer.
Updatable(package) ==
    /\ package.active_version # None
    /\ package.active_version \in DOMAIN package.versions
    /\ package.versions[package.active_version].package_manager # None

RecordedInstaller(package) ==
    package.versions[package.active_version].package_manager

\* The loop of update without a name, over the packages in iteration order.
\* system::get_package_manager_by_name fails for the capabilities in
\* unavailable, and that error is propagated; PackageManager::update fails
\* for the packages in upfails, and that error is printed.
RECURSIVE UpdateAll(_, _, _, _, _, _)
UpdateAll(pkgs, order, unavailable, upfails, lines, used) ==
    IF order = << >> THEN [ret |-> "save", out |-> lines, calls |-> used]
    ELSE LET name == Head(order)
             package == pkgs[name]
         IN  IF ~Updatable(package)
             THEN UpdateAll(pkgs, Tail(order), unavailable, upfails, lines, used)
             ELSE IF RecordedInstaller(package) \in unavailable
             THEN [ret |-> "NoInstallerAvailable", out |-> lines,
                   calls |-> used \cup {Used("by_name", RecordedInstaller(package), FALSE)}]
             ELSE UpdateAll(pkgs, Tail(order), unavailable, upfails,
                            lines \cup {IF name \in upfails
                                        THEN Line("Failed to update", name)
                                        ELSE Line("Updated package", name)},
                            used \cup {Used("by_name", RecordedInstaller(package), TRUE),
                                       Used("update", name, name \notin upfails)})

\* An update of one package that prints the error of the installer and goes
\* on to save, as the update of all packages does.
UpdateOutcomeSwallows(pkgs, call, dsk, unavailable, upfails, order) ==
    LET names == IF call.name = None THEN order
                 ELSE IF call.name \in DOMAIN pkgs THEN <<call.name>> ELSE << >>
        all == UpdateAll(pkgs, names, unavailable, upfails, {}, {})
    IN  Outcome(all.ret, pkgs, dsk, 0, all.out, all.calls)

\* An update that empties the recorded executables of the packages it has
\* updated.
UpdateOutcomeRecordsUpdate(pkgs, call, dsk, unavailable, upfails, order) ==
    LET names == IF call.name = None THEN order
                 ELSE IF call.name \in DOMAIN pkgs THEN <<call.name>> ELSE << >>
        all == UpdateAll(pkgs, names, unavailable, upfails, {}, {})
        updated == [n \in DOMAIN pkgs |->
                        IF Used("update", n, TRUE) \in all.calls
                        THEN [pkgs[n] EXCEPT
                                !.versions[pkgs[n].active_version].bin_paths = << >>]
                        ELSE pkgs[n]]
    IN  Outcome(all.ret, updated, dsk, 0, all.out, all.calls)

\* The body of update between the load and the save.  It changes neither the
\* local packages nor the disk.
UpdateOutcome(pkgs, call, dsk, unavailable, upfails, order) ==
    LET ends(ret, lines, used) == Outcome(ret, pkgs, dsk, 0, lines, used) IN
    IF call.name # None
    THEN IF call.name \in DOMAIN pkgs
         THEN LET package == pkgs[call.name] IN
              IF Updatable(package)
              THEN LET pm_name == RecordedInstaller(package) IN
                   IF pm_name \in unavailable
                   THEN ends("NoInstallerAvailable", {}, {Used("by_name", pm_name, FALSE)})
                   ELSE IF call.name \in upfails
                   THEN ends("InstallerError", {},
                             {Used("by_name", pm_name, TRUE),
                              Used("update", call.name, FALSE)})
                   ELSE ends("save", {Line("Updated package", call.name)},
                             {Used("by_name", pm_name, TRUE),
                              Used("update", call.name, TRUE)})
              ELSE ends("save", {}, {})
         ELSE ends("save", {Line("Package not found", call.name)}, {})
    ELSE LET all == UpdateAll(pkgs, order, unavailable, upfails, {}, {}) IN
         ends(all.ret, all.out, all.calls)

\* ------------------------------------------------------------------------
\* switch
\* ------------------------------------------------------------------------

\* A switch that does not look whether the version is installed.
SwitchOutcomeUnchecked(pkgs, call, dsk) ==
    IF call.name \in DOMAIN pkgs
    THEN Outcome("save",
                 [pkgs EXCEPT ![call.name].active_version = call.version],
                 dsk, 0, {}, {})
    ELSE Outcome("Ok", pkgs, dsk, 0, {Line("Package not found", call.name)}, {})

\* A switch that forgets to save.
SwitchOutcomeNoSave(pkgs, call, dsk) ==
    IF call.name \in DOMAIN pkgs
    THEN IF call.version \in DOMAIN pkgs[call.name].versions
         THEN Outcome("Ok",
                      [pkgs EXCEPT ![call.name].active_version = call.version],
                      dsk, 0, {}, {})
         ELSE Outcome("Ok", pkgs, dsk, 0, {Line("Version not found", call.version)}, {})
    ELSE Outcome("Ok", pkgs, dsk, 0, {Line("Package not found", call.name)}, {})

\* The body of switch between the load and the save.
SwitchOutcome(pkgs, call, dsk) ==
    IF call.name \in DOMAIN pkgs
    THEN IF call.version \in DOMAIN pkgs[call.name].versions
         THEN Outcome("save",
                      [pkgs EXCEPT ![call.name].active_version = call.version],
                      dsk, 0, {}, {})
         ELSE Outcome("Ok", pkgs, dsk, 0, {Line("Version not found", call.version)}, {})
    ELSE Outcome("Ok", pkgs, dsk, 0, {Line("Package not found", call.name)}, {})

\* ------------------------------------------------------------------------
\* list
\* ------------------------------------------------------------------------

\* A filter in which system_only alone decides.
ListShownSystemOnly(pkgs, system_only, user_only) ==
    {n \in DOMAIN pkgs : ~(system_only /\ ~pkgs[n].system)}

\* The packages that pass the filter of list.
ListShown(pkgs, system_only, user_only) ==
    {n \in DOMAIN pkgs :
        ~((system_only /\ ~pkgs[n].system) \/ (user_only /\ pkgs[n].system))}

\* The body of list: it prints and returns, and saves nothing.
ListOutcome(pkgs, call, dsk) ==
    IF DOMAIN pkgs = {}
    THEN Outcome("Ok", pkgs, dsk, 0, {Line("No packages installed", None)}, {})
    ELSE LET shown == ListShown(pkgs, call.system_only, call.user_only)
             listed == {Line("Package", n) : n \in shown}
                       \cup UNION {{Line("Version", <<n, v>>) :
                                        v \in DOMAIN pkgs[n].versions} : n \in shown}
             none == IF shown # {} THEN {}
                     ELSE IF call.system_only
                     THEN {Line("No system packages installed", None)}
                     ELSE IF call.user_only
                     THEN {Line("No user packages installed", None)}
                     ELSE {}
         IN  Outcome("Ok", pkgs, dsk, 0, listed \cup none, {})

\* The line a call prints once its save has succeeded.
SavedLines(call) ==
    IF call.kind = "install" THEN {Line("Successfully installed", call.name)}
    ELSE IF call.kind = "switch" THEN {Line("Switched", call.version)}
    ELSE {}

\* ------------------------------------------------------------------------
\* What the installer, the host and the filesystem may do to a call
\* ------------------------------------------------------------------------

\* A body outcome o together with the number of failures met outside the
\* program on the way to it.
Met(o, n) == [o |-> o, faults |-> n]

\* The calls to the installer capability that failed.
FailedCalls(used) == Cardinality({u \in used : ~u[3]})

\* load_packages failed: the call returns the error at once.
LoadFailed(dsk) == Met(Outcome("CorruptRegistry", EmptyMap, dsk, 0, {}, {}), 0)

InstallBodies(pkgs, call, dsk, now) ==
    LET dir == InstallDir(call.name, VersionToInstall(call.version), call.user) IN
    {Met(InstallOutcome(pkgs, call, dsk, c.pm, c.mkdir_ok, c.ins, now),
         IF c.pm = None \/ ~c.mkdir_ok \/ ~c.ins.ok THEN 1 ELSE 0) :
        c \in {c \in [pm : DetectPackageManager, mkdir_ok : BOOLEAN,
                      ins : InstallerInstall(dir)] :
                \* what follows a failure is not reached
                /\ c.pm = None => c.mkdir_ok
                /\ ~c.mkdir_ok \/ c.pm = None => c.ins.ok}}

\* The directories whose deletion the call attempts.
RemoveTargets(pkgs, call, dsk) ==
    IF call.name \notin DOMAIN pkgs THEN {}
    ELSE IF call.version = None THEN InstallPaths(pkgs[call.name]) \cap dsk
    ELSE IF call.version \in DOMAIN pkgs[call.name].versions
    THEN {pkgs[call.name].versions[call.version].install_path} \cap dsk
    ELSE {}

\* A deletion that fails on a directory that exists is a failure of the
\* filesystem; the error of deleting a missing directory is not.
RemoveFaults(pkgs, call, dsk, fails, order) ==
    IF RemoveTargets(pkgs, call, dsk) \cap fails # {} THEN 1 ELSE 0

RemoveBodies(pkgs, call, dsk) ==
    {Met(RemoveOutcome(pkgs, call, dsk, fails, order),
         RemoveFaults(pkgs, call, dsk, fails, order)) :
        fails \in SUBSET RemoveTargets(pkgs, call, dsk),
        order \in RemoveOrders(pkgs, call)}

\* The packages whose installer the call looks up.
UpdateTargets(pkgs, call) ==
    {n \in DOMAIN pkgs : (call.name = None \/ call.name = n) /\ Updatable(pkgs[n])}

UpdateBodies(pkgs, call, dsk) ==
    LET targets == UpdateTargets(pkgs, call) IN
    {Met(o, FailedCalls(o.calls)) :
        o \in {UpdateOutcome(pkgs, call, dsk, c.unavailable, c.upfails, c.order) :
                c \in [unavailable : SUBSET {RecordedInstaller(pkgs[n]) : n \in targets},
                       upfails : SUBSET targets,
                       order : HashMapIter(pkgs)]}}

SwitchBodies(pkgs, call, dsk) == {Met(SwitchOutcome(pkgs, call, dsk), 0)}

ListBodies(pkgs, call, dsk) == {Met(ListOutcome(pkgs, call, dsk), 0)}

\* ------------------------------------------------------------------------
\* The invocations, one after the other: each action is a whole call
\* ------------------------------------------------------------------------

\* What a process knows when it is not running a call.
NoPre == [db |-> EmptyMap, corrupt |-> FALSE, disk |-> {}, faults |-> 0]

Init ==
    /\ db = EmptyMap
    /\ corrupt = FALSE
    /\ disk = {}
    /\ clock = 0
    /\ nops = 0
    /\ ninstalls = 0
    /\ faults = 0
    /\ pc = [p \in Procs |-> "idle"]
    /\ op = [p \in Procs |-> NoCall]
    /\ packages = [p \in Procs |-> EmptyMap]
    /\ pre = [p \in Procs |-> NoPre]
    /\ result = [p \in Procs |-> "none"]
    /\ out = [p \in Procs |-> {}]
    /\ calls = [p \in Procs |-> {}]

\* The budgets of a behaviour.
CanStart(call) ==
    /\ nops < MaxOps
    /\ call.kind = "install" => ninstalls < MaxInstalls

Budget(call, n) ==
    /\ CanStart(call)
    /\ nops' = nops + 1
    /\ ninstalls' = ninstalls + (IF call.kind = "install" THEN 1 ELSE 0)
    /\ faults + n <= MaxFaults
    /\ faults' = faults + n

\* The ways save_packages may write after body b: a body that returned does
\* not save (written as "ok").
SaveWritesAfter(b) ==
    IF b.o.ret = "save" /\ faults + b.faults < MaxFaults THEN SaveWrites ELSE {"ok"}

\* The whole call of process p: load_packages, the body with outcome b.o,
\* and, unless the body returned, save_packages writing as w.
Invoke(p, call, b, w) ==
    LET saves == b.o.ret = "save"
        s == SavePackages(db, corrupt, b.o.packages, w)
    IN  /\ \A q \in Procs : pc[q] = "idle"
        /\ Budget(call, b.faults + (IF w = "ok" THEN 0 ELSE 1))
        /\ db' = IF saves THEN s.document ELSE db
        /\ corrupt' = IF saves THEN s.unparsable ELSE corrupt
        /\ disk' = b.o.disk
        /\ clock' = clock + b.o.ticks
        /\ op' = [op EXCEPT ![p] = call]
        /\ pre' = [pre EXCEPT ![p] = [db |-> db, corrupt |-> corrupt, disk |-> disk,
                                      faults |-> faults]]
        /\ result' = [result EXCEPT ![p] =
                IF saves THEN (IF s.ok THEN "Ok" ELSE "PersistenceError") ELSE b.o.ret]
        /\ out' = [out EXCEPT ![p] =
                IF saves /\ s.ok THEN b.o.out \cup SavedLines(call) ELSE b.o.out]
        /\ calls' = [calls EXCEPT ![p] = b.o.calls]
        /\ packages' = [packages EXCEPT ![p] = b.o.packages]
        /\ pc' = [pc EXCEPT ![p] = "returned"]

\* The process of a call that has returned exits: what it knew is gone.
Exit(p) ==
    /\ pc[p] = "returned"
    /\ pc' = [pc EXCEPT ![p] = "idle"]
    /\ op' = [op EXCEPT ![p] = NoCall]
    /\ pre' = [pre EXCEPT ![p] = NoPre]
    /\ result' = [result EXCEPT ![p] = "none"]
    /\ out' = [out EXCEPT ![p] = {}]
    /\ calls' = [calls EXCEPT ![p] = {}]
    /\ packages' = [packages EXCEPT ![p] = EmptyMap]
    /\ UNCHANGED <<db, corrupt, disk, clock, nops, ninstalls, faults>>

InstallCall ==
    \E call \in Calls :
        /\ CanStart(call)
        /\ call.kind = "install"
        /\ LET loaded == LoadPackages(db, corrupt) IN
           \E b \in (IF loaded.ok THEN InstallBodies(loaded.packages, call, disk, clock)
                     ELSE {LoadFailed(disk)}) :
           \E w \in SaveWritesAfter(b) :
                Invoke(FirstProc, call, b, w)

RemoveCall ==
    \E call \in Calls :
        /\ CanStart(call)
        /\ call.kind = "remove"
        /\ LET loaded == LoadPackages(db, corrupt) IN
           \E b \in (IF loaded.ok THEN RemoveBodies(loaded.packages, call, disk)
                     ELSE {LoadFailed(disk)}) :
           \E w \in SaveWritesAfter(b) :
                Invoke(FirstProc, call, b, w)

UpdateCall ==
    \E call \in Calls :
        /\ CanStart(call)
        /\ call.kind = "update"
        /\ LET loaded == LoadPackages(db, corrupt) IN
           \E b \in (IF loaded.ok THEN UpdateBodies(loaded.packages, call, disk)
                     ELSE {LoadFailed(disk)}) :
           \E w \in SaveWritesAfter(b) :
                Invoke(FirstProc, call, b, w)

SwitchCall ==
    \E call \in Calls :
        /\ CanStart(call)
        /\ call.kind = "switch"
        /\ LET loaded == LoadPackages(db, corrupt) IN
           \E b \in (IF loaded.ok THEN SwitchBodies(loaded.packages, call, disk)
                     ELSE {LoadFailed(disk)}) :
           \E w \in SaveWritesAfter(b) :
                Invoke(FirstProc, call, b, w)

ListCall ==
    \E call \in ListCalls :
        /\ CanStart(call)
        /\ LET loaded == LoadPackages(db, corrupt) IN
           \E b \in (IF loaded.ok THEN ListBodies(loaded.packages, call, disk)
                     ELSE {LoadFailed(disk)}) :
                Invoke(FirstProc, call, b, "ok")

Next ==
    \/ InstallCall
    \/ RemoveCall
    \/ UpdateCall
    \/ SwitchCall
    \/ ListCall
    \/ Exit(FirstProc)

Spec == Init /\ [][Next]_vars

\* ------------------------------------------------------------------------
\* Two invocations running at the same time on the registry that earlier
\* invocations have left: each takes its load, its body and its save as
\* separate steps
\* ------------------------------------------------------------------------

\* The installs that have left the registry the invocations find.
SeedInstalls ==
    <<Call("install", "foo", "1.0", FALSE), Call("install", "foo", "2.0", FALSE),
      Call("install", "bar", "1.0", FALSE)>>

\* The registry and the disk after the first n of them, all successful.
RECURSIVE Seeded(_)
Seeded(n) ==
    IF n = 0 THEN [packages |-> EmptyMap, disk |-> {}]
    ELSE LET before == Seeded(n - 1)
             call == SeedInstalls[n]
             dir == InstallDir(call.name, VersionToInstall(call.version), call.user)
             o == InstallOutcome(before.packages, call, before.disk, "apt", TRUE,
                                 [ok |-> TRUE, bin_paths |-> <<dir>>], n - 1)
         IN  [packages |-> o.packages, disk |-> o.disk]

InitConc ==
    /\ \E n \in 0..Len(SeedInstalls) :
        /\ db = Seeded(n).packages
        /\ disk = Seeded(n).disk
        /\ clock = n
    /\ corrupt = FALSE
    /\ nops = 0
    /\ ninstalls = 0
    /\ faults = 0
    /\ pc = [p \in Procs |-> "idle"]
    /\ op = [p \in Procs |-> NoCall]
    /\ packages = [p \in Procs |-> EmptyMap]
    /\ pre = [p \in Procs |-> NoPre]
    /\ result = [p \in Procs |-> "none"]
    /\ out = [p \in Procs |-> {}]
    /\ calls = [p \in Procs |-> {}]

\* Process p starts its call: load_packages.
Load(p) ==
    /\ pc[p] = "idle"
    /\ \E call \in Calls :
        LET loaded == LoadPackages(db, corrupt) IN
        /\ Budget(call, 0)
        /\ op' = [op EXCEPT ![p] = call]
        /\ pre' = [pre EXCEPT ![p] = [db |-> db, corrupt |-> corrupt, disk |-> disk,
                                      faults |-> faults]]
        /\ pc' = [pc EXCEPT ![p] = IF loaded.ok THEN "body" ELSE "returned"]
        /\ result' = [result EXCEPT ![p] = IF loaded.ok THEN "none" ELSE "CorruptRegistry"]
        /\ packages' = [packages EXCEPT ![p] = loaded.packages]
    /\ UNCHANGED <<db, corrupt, disk, clock, out, calls>>

\* The body of the call of process p ends with outcome b.o: "save" goes on to
\* save_packages, anything else returns from the call.
Body(p, b) ==
    /\ faults + b.faults <= MaxFaults
    /\ faults' = faults + b.faults
    /\ pc' = [pc EXCEPT ![p] = IF b.o.ret = "save" THEN "save" ELSE "returned"]
    /\ result' = [result EXCEPT ![p] = IF b.o.ret = "save" THEN "none" ELSE b.o.ret]
    /\ packages' = [packages EXCEPT ![p] = b.o.packages]
    /\ out' = [out EXCEPT ![p] = b.o.out]
    /\ calls' = [calls EXCEPT ![p] = b.o.calls]
    /\ disk' = b.o.disk
    /\ clock' = clock + b.o.ticks
    /\ UNCHANGED <<db, corrupt, nops, ninstalls, op, pre>>

Install(p) ==
    /\ pc[p] = "body"
    /\ op[p].kind = "install"
    /\ \E b \in InstallBodies(packages[p], op[p], disk, clock) : Body(p, b)

Remove(p) ==
    /\ pc[p] = "body"
    /\ op[p].kind = "remove"
    /\ \E b \in RemoveBodies(packages[p], op[p], disk) : Body(p, b)

Update(p) ==
    /\ pc[p] = "body"
    /\ op[p].kind = "update"
    /\ \E b \in UpdateBodies(packages[p], op[p], disk) : Body(p, b)

Switch(p) ==
    /\ pc[p] = "body"
    /\ op[p].kind = "switch"
    /\ \E b \in SwitchBodies(packages[p], op[p], disk) : Body(p, b)

\* save_packages at the end of the call of process p, and its return.
Save(p) ==
    /\ pc[p] = "save"
    /\ \E w \in SaveWrites :
        LET s == SavePackages(db, corrupt, packages[p], w) IN
        /\ faults + (IF w = "ok" THEN 0 ELSE 1) <= MaxFaults
        /\ faults' = faults + (IF w = "ok" THEN 0 ELSE 1)
        /\ db' = s.document
        /\ corrupt' = s.unparsable
        /\ result' = [result EXCEPT ![p] = IF s.ok THEN "Ok" ELSE "PersistenceError"]
        /\ out' = [out EXCEPT ![p] = IF s.ok THEN out[p] \cup SavedLines(op[p]) ELSE out[p]]
    /\ pc' = [pc EXCEPT ![p] = "returned"]
    /\ UNCHANGED <<disk, clock, nops, ninstalls, op, pre, packages, calls>>

NextConc ==
    \E p \in Procs :
        \/ Load(p)
        \/ Install(p)
        \/ Remove(p)
        \/ Update(p)
        \/ Switch(p)
        \/ Save(p)

SpecConc == InitConc /\ [][NextConc]_vars

\* ------------------------------------------------------------------------
\* Properties
\* ------------------------------------------------------------------------

\* The call of kind `kind` of process p has returned, and had loaded a
\* document that could be parsed.
Returned(p, kind) ==
    /\ pc[p] = "returned"
    /\ op[p].kind = kind
    /\ ~pre[p].corrupt

\* The version label the call of process p is about.
Label(p) ==
    IF op[p].kind = "install" THEN VersionToInstall(op[p].version) ELSE op[p].version

\* The registry document `document` records version v of package n.
Records(document, n, v) ==
    /\ n \in DOMAIN document
    /\ v \in DOMAIN document[n].versions

\* The active version of package n in `document`, None when n is absent.
ActiveIn(document, n) ==
    IF n \in DOMAIN document THEN document[n].active_version ELSE None

\* C1: in the persisted registry, after every call of a sequence of calls
\* started on the empty registry, the active_version of every Package, when
\* set, is a key of the versions of that Package.
ActiveVersionIsKey ==
    ~corrupt =>
        \A n \in DOMAIN db :
            db[n].active_version # None =>
                db[n].active_version \in DOMAIN db[n].versions

\* C1, its case: a remove has taken the active version out of a package and
\* saved, and another version is active now.
ActiveVersionIsKeyWitness ==
    \E p \in Procs :
        /\ Returned(p, "remove")
        /\ result[p] = "Ok"
        /\ Records(pre[p].db, op[p].name, op[p].version)
        /\ pre[p].db[op[p].name].active_version = op[p].version
        /\ ActiveIn(db, op[p].name) # None

\* C2: after every call, no Package of the persisted registry has an empty
\* versions mapping.
NoEmptyPackage ==
    ~corrupt => \A n \in DOMAIN db : DOMAIN db[n].versions # {}

\* C3: when the installer's install call fails, install returns an error and
\* the persisted registry is what it was before the call.
FailedInstallNotRecorded ==
    \A p \in Procs :
        (Returned(p, "install") /\ Used("install", op[p].name, FALSE) \in calls[p]) =>
            /\ result[p] \notin {"none", "Ok"}
            /\ db = pre[p].db
            /\ corrupt = pre[p].corrupt

\* C3, its case: the installer has failed on a version of a package that the
\* registry holds with another version.
FailedInstallNotRecordedWitness ==
    \E p \in Procs :
        /\ Returned(p, "install")
        /\ Used("install", op[p].name, FALSE) \in calls[p]
        /\ op[p].name \in DOMAIN pre[p].db
        /\ ~Records(pre[p].db, op[p].name, Label(p))

\* C4: after a successful install of version v, active_version is v only if
\* it was unset before the call and is what it was otherwise, and versions
\* holds v next to the versions it held.
InstallKeepsActive ==
    \A p \in Procs :
        (Returned(p, "install") /\ result[p] = "Ok") =>
            LET n == op[p].name
                was == ActiveIn(pre[p].db, n)
                had == IF n \in DOMAIN pre[p].db
                       THEN DOMAIN pre[p].db[n].versions ELSE {}
            IN  /\ ~corrupt
                /\ n \in DOMAIN db
                /\ db[n].active_version = (IF was = None THEN Label(p) ELSE was)
                /\ DOMAIN db[n].versions = had \cup {Label(p)}

\* C4, its case: a version that is not the active one has been installed
\* again while another version was active.
InstallKeepsActiveWitness ==
    \E p \in Procs :
        /\ Returned(p, "install")
        /\ result[p] = "Ok"
        /\ Records(pre[p].db, op[p].name, Label(p))
        /\ ActiveIn(pre[p].db, op[p].name) \notin {None, Label(p)}

\* C5: a switch to an installed version of a package of the registry that
\* succeeds has persisted the registry it loaded with that package's
\* active_version set to the version and nothing else changed; one whose
\* save fails leaves the document; neither touches the disk.
SwitchSetsOnlyActive ==
    \A p \in Procs :
        (Returned(p, "switch") /\ Records(pre[p].db, op[p].name, op[p].version)) =>
            /\ disk = pre[p].disk
            /\ result[p] = "Ok" =>
                /\ ~corrupt
                /\ db = [pre[p].db EXCEPT ![op[p].name].active_version = op[p].version]
            /\ result[p] # "Ok" => db = pre[p].db

\* C5, its case: a switch has moved the active version of a package with two
\* versions while the registry holds another package.
SwitchSetsOnlyActiveWitness ==
    \E p \in Procs :
        /\ Returned(p, "switch")
        /\ result[p] = "Ok"
        /\ Records(pre[p].db, op[p].name, op[p].version)
        /\ pre[p].db[op[p].name].active_version # op[p].version
        /\ DOMAIN pre[p].db # {op[p].name}
        /\ db[op[p].name].active_version = op[p].version

\* The call of process p is a remove or a switch of a package the loaded
\* registry does not hold, or of a version the package does not hold.
NotFound(p) ==
    /\ \/ Returned(p, "remove") /\ op[p].version # None
       \/ Returned(p, "remove") /\ op[p].name \notin DOMAIN pre[p].db
       \/ Returned(p, "switch")
    /\ ~Records(pre[p].db, op[p].name, op[p].version)

\* C6: a remove or a switch of an absent package or of an absent version
\* returns Ok and leaves the persisted registry and the install trees as they
\* were.
NotFoundChangesNothing ==
    \A p \in Procs :
        NotFound(p) =>
            /\ result[p] = "Ok"
            /\ db = pre[p].db
            /\ ~corrupt
            /\ disk = pre[p].disk

\* C6, its case: a switch to a version that a package with an active version
\* and a tree on disk does not hold.
NotFoundChangesNothingWitness ==
    \E p \in Procs :
        /\ Returned(p, "switch")
        /\ op[p].name \in DOMAIN pre[p].db
        /\ op[p].version \notin DOMAIN pre[p].db[op[p].name].versions
        /\ pre[p].db[op[p].name].active_version # None
        /\ InstallPaths(pre[p].db[op[p].name]) \cap disk # {}

\* The keys that iterating map m may yield first.
FirstKeys(m) == {Head(s) : s \in HashMapIter(m)}

\* The call of process p is a remove that took the active version v out of
\* a package in which other versions remain.
RemovedActive(p) ==
    /\ Returned(p, "remove")
    /\ result[p] \in {"Ok", "PersistenceError"}
    /\ op[p].version # None
    /\ Records(pre[p].db, op[p].name, op[p].version)
    /\ pre[p].db[op[p].name].active_version = op[p].version
    /\ DOMAIN pre[p].db[op[p].name].versions # {op[p].version}

\* C7: the version a remove promotes in place of the removed active version
\* is one of the remaining versions, and it is the only one the call can
\* promote on that registry.
PromotionDeterministic ==
    \A p \in Procs :
        RemovedActive(p) =>
            LET remaining == packages[p][op[p].name].versions
                promoted == packages[p][op[p].name].active_version
            IN  /\ promoted \in DOMAIN remaining
                /\ FirstKeys(remaining) = {promoted}

\* C8: when a remove has returned, with Ok or with an error, no version of
\* the package has lost its install tree and kept its entry in the persisted
\* registry, and none has lost its entry and kept its tree.
TreeAndEntryTogether ==
    \A p \in Procs :
        (Returned(p, "remove") /\ op[p].name \in DOMAIN pre[p].db) =>
            \A v \in DOMAIN pre[p].db[op[p].name].versions :
                LET path == pre[p].db[op[p].name].versions[v].install_path
                    deleted == path \in pre[p].disk /\ path \notin disk
                    entry == Records(db, op[p].name, v)
                IN  /\ ~(deleted /\ entry)
                    /\ ~(~entry /\ path \in disk)

\* The two calls have both loaded the same document, saved and returned Ok.
BothSaved ==
    \A p \in Procs :
        /\ pc[p] = "returned"
        /\ result[p] = "Ok"
        /\ op[p].kind \in {"install", "update"}
           \/ \A l \in out[p] : l[1] \notin {"Package not found", "Version not found"}
        /\ \A q \in Procs : pre[q].db = pre[p].db

\* C9: nothing guards the registry against two invocations at once: when
\* both have loaded the same document and both have saved with success, the
\* persisted registry is the local registry of one of them alone, whatever
\* the other has saved.
LastSaveWins ==
    BothSaved => (~corrupt /\ \E p \in Procs : db = packages[p])

\* C9, its case: the lost update.  Both calls loaded the same document, both
\* returned Ok, and the version that p1 installed and saved is not in the
\* persisted registry.
LostUpdate ==
    /\ BothSaved
    /\ op["p1"].kind = "install"
    /\ Records(packages["p1"], op["p1"].name, Label("p1"))
    /\ ~Records(db, op["p1"].name, Label("p1"))

\* C10: an update of all packages attempts the update of every package that
\* has an active version with a recorded installer, whatever fails for
\* another package, and does not return the error of a package.
UpdateAllIsolates ==
    \A p \in Procs :
        (Returned(p, "update") /\ op[p].name = None) =>
            /\ \A n \in DOMAIN pre[p].db :
                Updatable(pre[p].db[n]) =>
                    \E ok \in BOOLEAN : Used("update", n, ok) \in calls[p]
            /\ result[p] \in {"Ok", "PersistenceError"}

\* C11: a call that finds a persisted document it cannot parse returns the
\* CorruptRegistry error, has called no installer capability and changed no
\* install tree, and the persisted document is as it was, still unparsable.
CorruptRegistryIsFatal ==
    \A p \in Procs :
        (pc[p] = "returned" /\ pre[p].corrupt) =>
            /\ result[p] = "CorruptRegistry"
            /\ calls[p] = {}
            /\ out[p] = {}
            /\ disk = pre[p].disk
            /\ db = pre[p].db
            /\ corrupt

\* C11, its case: an install has returned on a registry that held packages
\* before a save left the document unparsable.
CorruptRegistryIsFatalWitness ==
    \E p \in Procs :
        /\ pc[p] = "returned"
        /\ op[p].kind = "install"
        /\ pre[p].corrupt
        /\ DOMAIN pre[p].db # {}

\* C12: a call leaves the system flag of every Package it keeps as it was,
\* and a Package enters the persisted registry through an install of its
\* name only, with system = !user of that install.
ScopeFixedAtCreation ==
    [][/\ \A n \in DOMAIN db \cap DOMAIN db' : db'[n].system = db[n].system
       /\ \A n \in DOMAIN db' \ DOMAIN db :
            /\ op'[FirstProc].kind = "install"
            /\ op'[FirstProc].name = n
            /\ db'[n].system = ~op'[FirstProc].user]_vars

\* C12, its case: an install with the other user flag has added a version to
\* a package of the registry and saved, and the package has the scope it had.
ScopeFixedAtCreationWitness ==
    \E p \in Procs :
        /\ Returned(p, "install")
        /\ result[p] = "Ok"
        /\ op[p].name \in DOMAIN pre[p].db
        /\ pre[p].db[op[p].name].system = op[p].user
        /\ db[op[p].name].system = op[p].user
        /\ db[op[p].name].versions # pre[p].db[op[p].name].versions

\* The versions that the persisted registry holds before and after a step,
\* as pairs of package name and version label.
KeptVersions ==
    {nv \in Names \X Versions : Records(db, nv[1], nv[2]) /\ Records(db', nv[1], nv[2])}

\* C13, as stated: no call changes the install_date of a version that the
\* persisted registry holds before and after it, an install of the same name
\* and version label included.
InstallDateImmutable ==
    [][\A nv \in KeptVersions :
            db'[nv[1]].versions[nv[2]].install_date
                = db[nv[1]].versions[nv[2]].install_date]_vars

\* C13, amended: the install_date of a version the persisted registry keeps
\* changes in one way only: a successful install of the same name and
\* version label replaces the entry, and its install_date is the time of that
\* install.
InstallDateSetByInstallOnly ==
    [][\A nv \in KeptVersions :
            db'[nv[1]].versions[nv[2]].install_date
                    # db[nv[1]].versions[nv[2]].install_date =>
                /\ op'[FirstProc].kind = "install"
                /\ op'[FirstProc].name = nv[1]
                /\ VersionToInstall(op'[FirstProc].version) = nv[2]
                /\ result'[FirstProc] = "Ok"
                /\ db'[nv[1]].versions[nv[2]].install_date = clock]_vars

\* C13, its case: a version of the registry has been installed again, and
\* its entry has the date of the second install while another version of the
\* package has kept its date.
InstallDateSetByInstallOnlyWitness ==
    \E p \in Procs :
        /\ Returned(p, "install")
        /\ result[p] = "Ok"
        /\ Records(pre[p].db, op[p].name, Label(p))
        /\ db[op[p].name].versions[Label(p)].install_date
                # pre[p].db[op[p].name].versions[Label(p)].install_date
        /\ \E v \in DOMAIN pre[p].db[op[p].name].versions :
                /\ v # Label(p)
                /\ db[op[p].name].versions[v] = pre[p].db[op[p].name].versions[v]

\* The call of process p is an update of one named package, and known tells
\* whether the loaded registry holds it with an active version whose entry
\* records an installer.
UpdatedOne(p, known) ==
    /\ Returned(p, "update")
    /\ op[p].name # None
    /\ known = (/\ op[p].name \in DOMAIN pre[p].db
                /\ Updatable(pre[p].db[op[p].name]))

\* C14, as stated: an update of one named package returns an error exactly
\* when the update call of the recorded installer has failed (an error of the
\* final save set aside), and makes no installer call and returns no error
\* when the package has no active version or no recorded installer.
UpdateOneFailsWithInstallerOnly ==
    \A p \in Procs :
        /\ UpdatedOne(p, TRUE) =>
                (result[p] \notin {"Ok", "PersistenceError"}
                    <=> Used("update", op[p].name, FALSE) \in calls[p])
        /\ UpdatedOne(p, FALSE) =>
                (calls[p] = {} /\ result[p] \in {"Ok", "PersistenceError"})

\* C14, amended: an update of one named package with an active version and
\* a recorded installer returns NoInstallerAvailable when the lookup of that
\* installer fails, without calling update; InstallerError when the update
\* call fails; and otherwise Ok, or PersistenceError when the final save
\* fails.  Without an active version or a recorded installer it calls no
\* installer and returns Ok, or PersistenceError when the final save fails.
UpdateOneErrors ==
    \A p \in Procs :
        /\ UpdatedOne(p, TRUE) =>
                LET pm_name == RecordedInstaller(pre[p].db[op[p].name]) IN
                \/ /\ calls[p] = {Used("by_name", pm_name, FALSE)}
                   /\ result[p] = "NoInstallerAvailable"
                \/ /\ calls[p] = {Used("by_name", pm_name, TRUE),
                                   Used("update", op[p].name, FALSE)}
                   /\ result[p] = "InstallerError"
                \/ /\ calls[p] = {Used("by_name", pm_name, TRUE),
                                   Used("update", op[p].name, TRUE)}
                   /\ result[p] \in {"Ok", "PersistenceError"}
        /\ UpdatedOne(p, FALSE) =>
                (calls[p] = {} /\ result[p] \in {"Ok", "PersistenceError"})

\* C14, its case: the lookup of the recorded installer has failed in an
\* update of one named package, and no update call was made.
UpdateOneErrorsWitness ==
    \E p \in Procs :
        /\ UpdatedOne(p, TRUE)
        /\ result[p] = "NoInstallerAvailable"
        /\ \A u \in calls[p] : u[1] # "update"

\* The call of process p is a remove without a version label of a package
\* of the loaded registry, and nothing has failed since it loaded: every
\* deletion it attempted and its save succeeded.
RemovedAllUnfailed(p) ==
    /\ Returned(p, "remove")
    /\ op[p].version = None
    /\ op[p].name \in DOMAIN pre[p].db
    /\ faults = pre[p].faults

\* C15: a remove without a version label of a package of the registry, when
\* no deletion of an existing tree and no save fails, returns Ok whether the
\* recorded directories exist or not: no recorded tree is on disk afterwards
\* and the Package is not in the persisted registry.
RemoveAllToleratesMissing ==
    \A p \in Procs :
        RemovedAllUnfailed(p) =>
            /\ result[p] = "Ok"
            /\ InstallPaths(pre[p].db[op[p].name]) \cap disk = {}
            /\ ~corrupt
            /\ db = MapRemove(pre[p].db, op[p].name)

\* C15, its case: the package had a version whose directory was missing and
\* one whose directory existed when the remove loaded.
RemoveAllToleratesMissingWitness ==
    \E p \in Procs :
        /\ RemovedAllUnfailed(p)
        /\ InstallPaths(pre[p].db[op[p].name]) \ pre[p].disk # {}
        /\ InstallPaths(pre[p].db[op[p].name]) \cap pre[p].disk # {}

\* The call of process p is a successful install, with no version label or
\* with the label "latest", of a package the loaded registry did not hold.
InstalledLatest(p) ==
    /\ Returned(p, "install")
    /\ result[p] = "Ok"
    /\ op[p].version \in {None, "latest"}
    /\ op[p].name \notin DOMAIN pre[p].db

\* C16: a successful install without a version label, like one with the
\* label "latest", of a package absent from the registry persists a Package
\* whose only version has the key "latest", is the active one and has the
\* install directory {scope root}/{name}/latest, which exists.
DefaultVersionIsLatest ==
    \A p \in Procs :
        InstalledLatest(p) =>
            /\ ~corrupt
            /\ op[p].name \in DOMAIN db
            /\ DOMAIN db[op[p].name].versions = {"latest"}
            /\ db[op[p].name].active_version = "latest"
            /\ db[op[p].name].versions["latest"].install_path
                    = InstallDir(op[p].name, "latest", op[p].user)
            /\ InstallDir(op[p].name, "latest", op[p].user) \in disk

\* C16, its case: the install had no version label.
DefaultVersionIsLatestWitness ==
    \E p \in Procs :
        /\ InstalledLatest(p)
        /\ op[p].version = None
        /\ Records(db, op[p].name, "latest")

\* The packages that the list of process p has shown.
Listed(p) == {n \in Names : Line("Package", n) \in out[p]}

\* C17: list shows the packages p of the registry with (system_only => p.system)
\* and (user_only => ~p.system), and no other: all of them when neither
\* filter is set, none when both are.  It returns Ok and changes nothing.
ListShowsFiltered ==
    \A p \in Procs :
        Returned(p, "list") =>
            /\ Listed(p) = {n \in DOMAIN pre[p].db :
                                /\ op[p].system_only => pre[p].db[n].system
                                /\ op[p].user_only => ~pre[p].db[n].system}
            /\ (~op[p].system_only /\ ~op[p].user_only) => Listed(p) = DOMAIN pre[p].db
            /\ (op[p].system_only /\ op[p].user_only) => Listed(p) = {}
            /\ result[p] = "Ok"
            /\ db = pre[p].db /\ ~corrupt /\ disk = pre[p].disk

\* C17, its case: both filters set on a registry that holds a system package
\* and a user package.
ListShowsFilteredWitness ==
    \E p \in Procs :
        /\ Returned(p, "list")
        /\ op[p].system_only /\ op[p].user_only
        /\ \E n, m \in DOMAIN pre[p].db : pre[p].db[n].system /\ ~pre[p].db[m].system
        /\ Listed(p) = {}

\* C18: in the persisted registry, after every call of a sequence of calls
\* started on the empty registry, every Package with at least one version
\* has its active_version set.
ActiveSetWhenVersions ==
    ~corrupt =>
        \A n \in DOMAIN db :
            DOMAIN db[n].versions # {} => db[n].active_version # None

\* C18, its case: a package left without versions and without active version
\* has had a version installed, and that version is active.
ActiveSetWhenVersionsWitness ==
    \E p \in Procs :
        /\ Returned(p, "install")
        /\ result[p] = "Ok"
        /\ op[p].name \in DOMAIN pre[p].db
        /\ DOMAIN pre[p].db[op[p].name].versions = {}
        /\ pre[p].db[op[p].name].active_version = None
        /\ db[op[p].name].active_version = Label(p)

\* C19: whatever the interleaving of the loads, bodies and saves of two
\* invocations, every Package of every persisted registry has no
\* active_version or has it among the keys of its versions.
ActiveVersionIsKeyConcurrently ==
    \A n \in DOMAIN db :
        LET package == db[n] IN
        package.active_version = None \/ Records(db, n, package.active_version)

\* C19, its case: p1 has switched a package to a version and saved, and p2,
\* which had loaded the same document, has removed that version and saved
\* after p1: the switch is lost and the version is gone.
ActiveVersionIsKeyConcurrentlyWitness ==
    /\ BothSaved
    /\ op["p1"].kind = "switch"
    /\ op["p2"].kind = "remove"
    /\ op["p2"].name = op["p1"].name
    /\ op["p2"].version = op["p1"].version
    /\ packages["p1"][op["p1"].name].active_version = op["p1"].version
    /\ pre["p1"].db[op["p1"].name].active_version # op["p1"].version
    /\ ~Records(db, op["p1"].name, op["p1"].version)
    /\ ActiveIn(db, op["p1"].name) # None

\* C20: an update, of one package or of all, whatever the installers return,
\* holds the registry it loaded when it saves or returns and touches no
\* install tree; after its successful save the persisted document is the
\* registry it loaded, and after an error before the save the persisted
\* document is untouched.
UpdateKeepsRegistry ==
    \A p \in Procs :
        Returned(p, "update") =>
            /\ packages[p] = pre[p].db
            /\ disk = pre[p].disk
            /\ result[p] = "Ok" => (db = pre[p].db /\ ~corrupt)
            /\ result[p] \notin {"Ok", "PersistenceError"} =>
                    (db = pre[p].db /\ corrupt = pre[p].corrupt)

\* C20, its case: an update of all the packages has updated one package,
\* reported the failure of another, and saved.
UpdateKeepsRegistryWitness ==
    \E p \in Procs :
        /\ Returned(p, "update")
        /\ op[p].name = None
        /\ result[p] = "Ok"
        /\ \E n, m \in DOMAIN pre[p].db :
                /\ Used("update", n, TRUE) \in calls[p]
                /\ Used("update", m, FALSE) \in calls[p]
        /\ db = pre[p].db

====
